---- MODULE Spec2Model ----
(***************************************************************************)
(* Model of reddit_analysis/comment_analysis.py: SubredditAnalyzer.        *)
(*                                                                         *)
(* Numbers.  The polarity scores (pos, neg, neu, compound) are held in     *)
(* hundredths, so 0.05 is 5 and 1.0 is 100.  Sums of scores are integers   *)
(* in hundredths; the quotients the analyzer returns are exact fractions   *)
(* [num, den] in lowest terms with den > 0.  Arithmetic is exact: the      *)
(* rounding of Python's floats is not modelled.                            *)
(*                                                                         *)
(* The store (a MongoDB collection), the comment preprocessor and the      *)
(* VADER scorer are collaborators: what a store read returns is an input   *)
(* of the step that reads it.  A preprocessed comment is named by a        *)
(* string, and polarity_scores maps it to its score.                       *)
(***************************************************************************)
EXTENDS Integers, Sequences, FiniteSets, TLC

(***************************************************************************)
(* Bounds of the model.                                                    *)
(***************************************************************************)
\* longest list of comments the store holds for one submission
MaxComments == 2
\* most distinct submission ids the store returns for one subreddit
MaxSubmissions == 2

(***************************************************************************)
(* Values.                                                                 *)
(***************************************************************************)
\* Python's None, for sorting_type
None == "None"

\* an optional integer argument: <<>> is None, <<n>> is the integer n
NoInt == <<>>

\* self.__valid_sorting_types
valid_sorting_types == {"new", "top", "hot", None}

\* the sorting types a caller passes: absent, a valid one, one that is not
SortingTypeInputs == {None, "hot", "rising"}

\* the integers a caller passes for max_number_of_comments_to_analyze
MaxCommentsInputs == {-1, 0, 1}

\* the integers a caller passes for max_number_of_submissions_to_analyze
MaxSubmissionsInputs == {-1, 0, 1, 2}

\* the comments (as preprocessed text) the store can hold
Comments == {"great", "awful", "meh", "mixed", "okay", "poor", "nice", "sad",
             "odd"}

\* SentimentIntensityAnalyzer.polarity_scores, in hundredths.
\*   great  compound  0.80            Positive by the threshold
\*   awful  compound -0.70            Negative by the threshold
\*   meh    pos = neg = 0             Ignored
\*   mixed  pos, neg > 0, |c| < 0.05  Ignored
\*   okay   compound  0.05 exactly    Positive by the threshold only
\*   poor   compound -0.05 exactly    Negative by the threshold only
\*   nice   neg = 0, pos > 0, c = 0   Positive by the second clause only
\*   sad    pos = 0, neg > 0, c = -0.03  Negative by the second clause only
\*   odd    neg = 0, pos > 0, c = -0.70  both a Positive and a Negative clause
polarity_scores(comment) ==
    CASE comment = "great" -> [pos |-> 60, neg |-> 0,  neu |-> 40,  compound |-> 80]
      [] comment = "awful" -> [pos |-> 0,  neg |-> 50, neu |-> 50,  compound |-> -70]
      [] comment = "meh"   -> [pos |-> 0,  neg |-> 0,  neu |-> 100, compound |-> 0]
      [] comment = "mixed" -> [pos |-> 20, neg |-> 20, neu |-> 60,  compound |-> 2]
      [] comment = "okay"  -> [pos |-> 10, neg |-> 10, neu |-> 80,  compound |-> 5]
      [] comment = "poor"  -> [pos |-> 10, neg |-> 10, neu |-> 80,  compound |-> -5]
      [] comment = "nice"  -> [pos |-> 10, neg |-> 0,  neu |-> 90,  compound |-> 0]
      [] comment = "sad"   -> [pos |-> 0,  neg |-> 10, neu |-> 90,  compound |-> -3]
      [] comment = "odd"   -> [pos |-> 30, neg |-> 0,  neu |-> 70,  compound |-> -70]

(***************************************************************************)
(* Arithmetic.                                                             *)
(***************************************************************************)
\* Python's abs
abs(x) == IF x < 0 THEN -x ELSE x

RECURSIVE GCD(_, _)
GCD(a, b) == IF b = 0 THEN a ELSE GCD(b, a % b)

\* the fraction n/d (d # 0) in lowest terms with a positive denominator
Frac(n, d) ==
    LET g == GCD(abs(n), abs(d))
        s == IF d < 0 THEN -1 ELSE 1
    IN  [num |-> (s * n) \div g, den |-> (s * d) \div g]

\* the integer 0 of {'positive': 0, 'negative': 0}
Zero == [num |-> 0, den |-> 1]

\* x + y on fractions, over the least common denominator
FracAdd(x, y) ==
    LET g == GCD(x.den, y.den)
    IN  Frac(x.num * (y.den \div g) + y.num * (x.den \div g),
             x.den * (y.den \div g))

\* x / y on fractions, y # 0; the common factors are cancelled first
FracDiv(x, y) ==
    LET gn == IF x.num = 0 THEN abs(y.num) ELSE GCD(abs(x.num), abs(y.num))
        gd == GCD(x.den, y.den)
    IN  Frac((x.num \div gn) * (y.den \div gd),
             (x.den \div gd) * (y.num \div gn))

\* Python's sum over a list of numbers
RECURSIVE sum(_)
sum(list) == IF list = <<>> THEN 0 ELSE Head(list) + sum(Tail(list))

\* list[:n] for n >= 0
Take(list, n) == SubSeq(list, 1, IF n < Len(list) THEN n ELSE Len(list))

\* all lists of length at most n over S
ListsUpTo(S, n) == UNION {[1..k -> S] : k \in 0..n}

\* all lists over S of length at most n that hold no element twice
DistinctListsUpTo(S, n) ==
    {l \in ListsUpTo(S, n) : \A i, j \in 1..Len(l) : i # j => l[i] # l[j]}

(***************************************************************************)
(* Parameter validation.                                                   *)
(***************************************************************************)
\* Python's truth value of an optional integer: None and 0 are false
Truthy(option) == option # NoInt /\ option[1] # 0

\* the validation with its third test written on the comments option again
check_with_third_test_on_comments(sorting_type_option, max_number_of_comments_option, max_number_of_submissions_option) ==
    IF sorting_type_option \notin valid_sorting_types
      THEN "ValueError"
    ELSE IF Truthy(max_number_of_comments_option)
            /\ max_number_of_comments_option[1] < 0
      THEN "ValueError"
    ELSE IF Truthy(max_number_of_submissions_option)
            /\ max_number_of_comments_option[1] < 0
      THEN "ValueError"
    ELSE ""

\* __check_analysis_paramters_are_valid_raise_exception: the error it raises,
\* or "" when it returns
check_analysis_paramters_are_valid_raise_exception(sorting_type_option, max_number_of_comments_option, max_number_of_submissions_option) ==
    IF sorting_type_option \notin valid_sorting_types
      THEN "ValueError"
    ELSE IF Truthy(max_number_of_comments_option)
            /\ max_number_of_comments_option[1] < 0
      THEN "ValueError"
    ELSE IF Truthy(max_number_of_submissions_option)
            /\ max_number_of_submissions_option[1] < 0
      THEN "ValueError"
    ELSE ""

(***************************************************************************)
(* The store, as one call of analyze_submission meets it.                  *)
(*   stored       the comments the store holds for the query, in order     *)
(*   cursor_lost  whether the cursor is lost during the retrieval          *)
(*   yielded      how many comments the cursor yields before that          *)
(*   find_one     what find_one({'submission': id}) does when asked:       *)
(*                "document", "nothing" (it returns None), "cursor_lost"   *)
(***************************************************************************)
FindOneReplies == {"document", "nothing", "cursor_lost"}

\* what the store can reply to one call of analyze_submission when it holds
\* one of the lists `stores`: a lost cursor yields a proper prefix
Replies(stores, find_one_replies) ==
    UNION {{[stored |-> s, cursor_lost |-> y < Len(s), yielded |-> y,
             find_one |-> f] : y \in 0..Len(s), f \in find_one_replies} :
           s \in stores}

\* RedditPreprocessor.get_preprocessed_comments (comment_preprocessing.py):
\* the comments of the submission, at most max_number_of_comments of them
\* when that is not 0; a lost cursor ends the retrieval with what was read.
get_preprocessed_comments(reply, max_number_of_comments) ==
    LET retrieved == Take(reply.stored, reply.yielded)
    IN  IF max_number_of_comments # 0
          THEN Take(retrieved, max_number_of_comments)
          ELSE retrieved

(***************************************************************************)
(* analyze_submission.                                                     *)
(***************************************************************************)
\* Classification with the two branches in the other order
ClassificationNegativeFirst(analysis_results_of_comment) ==
    IF analysis_results_of_comment.compound <= -5
       \/ (analysis_results_of_comment.pos = 0 /\ analysis_results_of_comment.neg > 0)
      THEN "Negative"
    ELSE IF analysis_results_of_comment.compound >= 5
            \/ (analysis_results_of_comment.neg = 0 /\ analysis_results_of_comment.pos > 0)
      THEN "Positive"
    ELSE "Ignored"

\* lines 141-156: classification_to_print_out for one comment's scores
Classification(analysis_results_of_comment) ==
    IF analysis_results_of_comment.compound >= 5
       \/ (analysis_results_of_comment.neg = 0 /\ analysis_results_of_comment.pos > 0)
      THEN "Positive"
    ELSE IF analysis_results_of_comment.compound <= -5
            \/ (analysis_results_of_comment.pos = 0 /\ analysis_results_of_comment.neg > 0)
      THEN "Negative"
    ELSE "Ignored"

\* lines 132-133: the locals of analyze_submission before its loop
NoComments == [positive_comment_results |-> <<>>,
               negative_comment_results |-> <<>>,
               classifications |-> <<>>,
               queries |-> <<>>,
               error |-> ""]

\* CommentStep appending by the sign of compound instead of by the label
CommentStepBySign(locals, comment, display_all_comment_results, find_one) ==
    LET analysis_results_of_comment == polarity_scores(comment)
    IN  [locals EXCEPT
           !.positive_comment_results =
               IF analysis_results_of_comment.compound > 0
                 THEN Append(@, analysis_results_of_comment.compound) ELSE @,
           !.negative_comment_results =
               IF analysis_results_of_comment.compound < 0
                 THEN Append(@, abs(analysis_results_of_comment.compound)) ELSE @,
           !.classifications =
               Append(@, Classification(analysis_results_of_comment)),
           !.queries = IF display_all_comment_results
                         THEN Append(@, "find_one") ELSE @,
           !.error = IF display_all_comment_results /\ find_one = "nothing"
                       THEN "TypeError" ELSE ""]

\* lines 136-175: one pass of the loop over the preprocessed comments
CommentStep(locals, comment, display_all_comment_results, find_one) ==
    LET analysis_results_of_comment == polarity_scores(comment)
        classification_to_print_out == Classification(analysis_results_of_comment)
        classified ==
            [locals EXCEPT
               !.positive_comment_results =
                   IF classification_to_print_out = "Positive"
                     THEN Append(@, analysis_results_of_comment.compound)
                     ELSE @,
               !.negative_comment_results =
                   IF classification_to_print_out = "Negative"
                     THEN Append(@, abs(analysis_results_of_comment.compound))
                     ELSE @,
               !.classifications = Append(@, classification_to_print_out)]
    IN  IF display_all_comment_results
          THEN [classified EXCEPT
                  !.queries = Append(@, "find_one"),
                  \* None['subreddit_name'] raises; CursorNotFound is caught
                  !.error = IF find_one = "nothing" THEN "TypeError" ELSE ""]
          ELSE classified

\* lines 135-175: the loop; an error ends it
RECURSIVE CommentLoop(_, _, _, _)
CommentLoop(locals, comments, display_all_comment_results, find_one) ==
    IF comments = <<>> \/ locals.error # ""
      THEN locals
      ELSE CommentLoop(CommentStep(locals, Head(comments),
                                   display_all_comment_results, find_one),
                       Tail(comments), display_all_comment_results, find_one)

\* a call that raised `error` after the store reads `queries`
Raised(error, queries) ==
    [outcome |-> "raise", error |-> error,
     value |-> [positive |-> Zero, negative |-> Zero],
     preprocessed |-> <<>>,
     positive_comment_results |-> <<>>, negative_comment_results |-> <<>>,
     classifications |-> <<>>, queries |-> queries, divisions |-> 0]

\* SubmissionResult dividing by the number of comments (a mean over all
\* comments) instead of by the sum of the two lists
SubmissionResultByCount(locals, preprocessed) ==
    LET returned(value, divisions) ==
            [outcome |-> "return", error |-> "", value |-> value,
             preprocessed |-> preprocessed,
             positive_comment_results |-> locals.positive_comment_results,
             negative_comment_results |-> locals.negative_comment_results,
             classifications |-> locals.classifications,
             queries |-> locals.queries, divisions |-> divisions]
    IN  IF sum(locals.positive_comment_results \o locals.negative_comment_results) = 0
          THEN returned([positive |-> Zero, negative |-> Zero], 0)
          ELSE returned(
                 [positive |-> Frac(sum(locals.positive_comment_results),
                                    100 * Len(preprocessed)),
                  negative |-> Frac(sum(locals.negative_comment_results),
                                    100 * Len(preprocessed))], 2)

\* lines 177-193: the result from the two lists; divisions counts the "/"
SubmissionResult(locals, preprocessed) ==
    LET total_sum_of_result_scores ==
            sum(locals.positive_comment_results \o locals.negative_comment_results)
        returned(value, divisions) ==
            [outcome |-> "return", error |-> "", value |-> value,
             preprocessed |-> preprocessed,
             positive_comment_results |-> locals.positive_comment_results,
             negative_comment_results |-> locals.negative_comment_results,
             classifications |-> locals.classifications,
             queries |-> locals.queries, divisions |-> divisions]
    IN  IF total_sum_of_result_scores = 0
          THEN returned([positive |-> Zero, negative |-> Zero], 0)
          ELSE returned(
                 [positive |-> Frac(sum(locals.positive_comment_results),
                                    total_sum_of_result_scores),
                  negative |-> Frac(sum(locals.negative_comment_results),
                                    total_sum_of_result_scores)], 2)

\* analyze_submission(submission_id, sorting_type, display_all_comment_results,
\* max_number_of_comments_to_analyze) against a store that replies `reply`.
\* The submission id and the sorting type only select what the store holds.
analyze_submission(sorting_type, display_all_comment_results, max_number_of_comments_to_analyze, reply) ==
    LET invalid == check_analysis_paramters_are_valid_raise_exception(
                       sorting_type, <<max_number_of_comments_to_analyze>>, NoInt)
        preprocessed_submission_comments ==
            get_preprocessed_comments(reply, max_number_of_comments_to_analyze)
        locals == CommentLoop([NoComments EXCEPT
                                  !.queries = <<"get_preprocessed_comments">>],
                              preprocessed_submission_comments,
                              display_all_comment_results, reply.find_one)
    IN  IF invalid # "" THEN Raised(invalid, <<>>)
        ELSE IF locals.error # "" THEN Raised(locals.error, locals.queries)
        ELSE SubmissionResult(locals, preprocessed_submission_comments)

(***************************************************************************)
(* The state.                                                              *)
(***************************************************************************)
VARIABLES
    pc,          \* "ready": the analyzer is constructed and no call is
                 \* running; "analyze_subreddit": at the loop of line 264;
                 \* "ranking": at the comparison of line 336 or 375;
                 \* "ended": the call has returned or raised
    method,      \* the public method running, or the last one that ran
    args,        \* its arguments
    reply,       \* analyze_submission called directly: what the store replied
    submission,  \* analyze_submission called directly: its locals and outcome
    subreddit,   \* the locals of analyze_subreddit
    ranking,     \* the locals of the two get_most_* methods
    store_reads, \* the kinds of store reads the call has issued
    divisions,   \* how many "/" the call has evaluated
    result,      \* how the last call ended: the value returned or the error
    store,       \* the content of the collection, when it is held fixed
    earlier      \* a call that ended earlier and how it ended, or <<>>

vars == <<pc, method, args, reply, submission, subreddit, ranking,
          store_reads, divisions, result, store, earlier>>

\* the submission ids and the subreddit names of the store
SubmissionIds == {"s1", "s2", "s3"}

\* the lists of subreddits a caller passes to the get_most_* methods
SubredditLists == {<<>>, <<"b">>, <<"a", "b">>}

\* inside analyze_subreddit the store holds one of these lists of comments
\* for a submission
SubredditStores == {<<>>, <<"meh">>, <<"great">>, <<"sad">>, <<"great", "sad">>,
                    <<"odd", "sad">>, <<"meh", "great">>}

\* the arguments at their defaults; "" is an id or a name not looked at
NoArgs == [submission_id |-> "", subreddit_name |-> "",
           list_of_subreddits |-> <<>>, sorting_type |-> None,
           display_all_comment_results |-> FALSE,
           display_all_submission_results |-> FALSE,
           max_number_of_comments_to_analyze |-> 0,
           max_number_of_submissions_to_analyze |-> 0]

NoReply == [stored |-> <<>>, cursor_lost |-> FALSE, yielded |-> 0,
            find_one |-> "document"]

NoValue == [positive |-> Zero, negative |-> Zero]

\* the locals of analyze_submission when it was not called directly
NoSubmission == [outcome |-> "none", error |-> "", value |-> NoValue,
                 preprocessed |-> <<>>,
                 positive_comment_results |-> <<>>,
                 negative_comment_results |-> <<>>,
                 classifications |-> <<>>, queries |-> <<>>, divisions |-> 0]

NoResult == [outcome |-> "none", error |-> "", value |-> NoValue]

\* the locals of analyze_subreddit, and what it has met so far:
\*   distinct_reply  how find({...}).distinct('submission') ended: "none"
\*                   (not asked), "ids" or "cursor_lost"
\*   retrieved_submission_ids  the ids it returned
\*   position        the index of the id the loop of line 264 visits next
\*   analysed        the ids analyze_submission was called on, in order
\*   results         the results those calls returned, in order
NoSubreddit == [distinct_reply |-> "none",
                retrieved_submission_ids |-> <<>>,
                subreddit_submission_ids |-> <<>>,
                position |-> 0,
                average_results_for_subreddit |-> NoValue,
                analysis_results_of_submission |-> NoValue,
                analysed |-> <<>>,
                results |-> <<>>]

\* most_subreddit is most_positive_subreddit or most_negative_subreddit:
\* <<>> is the empty dict {}, <<r>> the analysis result r
NoRanking == [position |-> 0, most_subreddit |-> <<>>, assigned |-> FALSE]

\* a collection whose content is not held fixed: each read draws its reply
NoStore == [comments |-> <<>>, submissions |-> <<>>, find_one |-> "document"]

Init ==
    /\ pc = "ready"
    /\ method = "none"
    /\ args = NoArgs
    /\ reply = NoReply
    /\ submission = NoSubmission
    /\ subreddit = NoSubreddit
    /\ ranking = NoRanking
    /\ store_reads = {}
    /\ divisions = 0
    /\ result = NoResult
    /\ store = NoStore
    /\ earlier = <<>>

\* the call ends: it returns `value` or raises `error`
Ends(outcome, error, value) ==
    /\ pc' = "ended"
    /\ result' = [outcome |-> outcome, error |-> error, value |-> value]

(***************************************************************************)
(* analyze_submission, called directly (lines 98-193).                     *)
(***************************************************************************)
AnalyzeSubmission ==
    /\ pc = "ready"
    /\ \E sorting_type \in SortingTypeInputs, display \in BOOLEAN,
          max_comments \in MaxCommentsInputs :
         LET invalid == check_analysis_paramters_are_valid_raise_exception(
                            sorting_type, <<max_comments>>, NoInt)
         IN  \E r \in IF invalid # "" THEN {NoReply}
                      ELSE Replies(ListsUpTo(Comments, MaxComments),
                                   IF display THEN FindOneReplies
                                              ELSE {"document"}) :
               LET out == analyze_submission(sorting_type, display, max_comments, r)
               IN  /\ method' = "analyze_submission"
                   /\ args' = [NoArgs EXCEPT
                                 !.sorting_type = sorting_type,
                                 !.display_all_comment_results = display,
                                 !.max_number_of_comments_to_analyze = max_comments]
                   /\ reply' = r
                   /\ submission' = out
                   /\ store_reads' = {out.queries[i] : i \in 1..Len(out.queries)}
                   /\ divisions' = out.divisions
                   /\ Ends(out.outcome, out.error, out.value)
    /\ subreddit' = NoSubreddit
    /\ ranking' = NoRanking
    /\ UNCHANGED <<store, earlier>>

(***************************************************************************)
(* analyze_subreddit (lines 196-302).                                      *)
(***************************************************************************)
\* what find({...}).distinct('submission') can reply: the distinct ids in
\* the store's order, or a lost cursor
DistinctReplies ==
    {[ids |-> l, cursor_lost |-> FALSE] :
        l \in DistinctListsUpTo(SubmissionIds, MaxSubmissions)}
    \cup {[ids |-> <<>>, cursor_lost |-> TRUE]}

\* the test of line 245 never taking the early return
no_submissions_found_never(subreddit_submission_ids) ==
    Len(subreddit_submission_ids) < 0

\* line 245: no posts found in the subreddit
no_submissions_found(subreddit_submission_ids) ==
    Len(subreddit_submission_ids) = 0

\* Truncated keeping one id too many
TruncatedOneMore(subreddit_submission_ids, max_number_of_submissions_to_analyze) ==
    IF Len(subreddit_submission_ids) > max_number_of_submissions_to_analyze
       /\ max_number_of_submissions_to_analyze # 0
      THEN Take(subreddit_submission_ids, max_number_of_submissions_to_analyze + 1)
      ELSE subreddit_submission_ids

\* lines 252-258: the ids the loop will visit
Truncated(subreddit_submission_ids, max_number_of_submissions_to_analyze) ==
    IF Len(subreddit_submission_ids) > max_number_of_submissions_to_analyze
       /\ max_number_of_submissions_to_analyze # 0
      THEN Take(subreddit_submission_ids, max_number_of_submissions_to_analyze)
      ELSE subreddit_submission_ids

\* analyze_subreddit returns `value` to the get_most_* method that called it
HandsBack(value) ==
    /\ pc' = "ranking"
    /\ result' = [outcome |-> "none", error |-> "", value |-> value]

\* lines 227-262: analyze_subreddit up to its loop, with the arguments `a`,
\* called by a get_most_* method (in_ranking) or directly; reads_before and
\* divisions_before are the reads and divisions of the public call so far,
\* distinct_replies what find({...}).distinct('submission') can reply
BeginSubreddit(a, in_ranking, reads_before, divisions_before, distinct_replies) ==
    LET invalid == check_analysis_paramters_are_valid_raise_exception(
                       a.sorting_type,
                       <<a.max_number_of_comments_to_analyze>>,
                       <<a.max_number_of_submissions_to_analyze>>)
    IN  /\ divisions' = divisions_before
        /\ IF invalid # ""
             THEN /\ subreddit' = NoSubreddit
                  /\ store_reads' = reads_before
                  /\ Ends("raise", invalid, NoValue)
             ELSE \E found \in distinct_replies :
                    /\ store_reads' = reads_before \cup {"find.distinct"}
                    /\ IF found.cursor_lost
                         \* nothing around lines 236-242 catches CursorNotFound
                         THEN /\ subreddit' = [NoSubreddit EXCEPT
                                                  !.distinct_reply = "cursor_lost"]
                              /\ Ends("raise", "CursorNotFound", NoValue)
                       ELSE IF no_submissions_found(found.ids)
                         THEN /\ subreddit' = [NoSubreddit EXCEPT
                                                  !.distinct_reply = "ids"]
                              /\ IF in_ranking
                                   THEN HandsBack(NoValue)
                                   ELSE Ends("return", "", NoValue)
                         ELSE /\ subreddit' =
                                   [NoSubreddit EXCEPT
                                      !.distinct_reply = "ids",
                                      !.retrieved_submission_ids = found.ids,
                                      !.subreddit_submission_ids =
                                          Truncated(found.ids,
                                              a.max_number_of_submissions_to_analyze),
                                      !.position = 1]
                              /\ pc' = "analyze_subreddit"
                              /\ result' = NoResult

AnalyzeSubreddit ==
    /\ pc = "ready"
    /\ \E sorting_type \in SortingTypeInputs,
          display_comments \in BOOLEAN, display_submissions \in BOOLEAN,
          max_comments \in MaxCommentsInputs, max_submissions \in MaxSubmissionsInputs :
         /\ method' = "analyze_subreddit"
         /\ args' = [NoArgs EXCEPT
                       !.sorting_type = sorting_type,
                       !.display_all_comment_results = display_comments,
                       !.display_all_submission_results = display_submissions,
                       !.max_number_of_comments_to_analyze = max_comments,
                       !.max_number_of_submissions_to_analyze = max_submissions]
         /\ BeginSubreddit(args', FALSE, {}, 0, DistinctReplies)
    /\ reply' = NoReply
    /\ submission' = NoSubmission
    /\ ranking' = NoRanking
    /\ UNCHANGED <<store, earlier>>

\* what a call of analyze_submission leaves to analyze_subreddit
Outcome(out) ==
    [outcome |-> out.outcome, error |-> out.error, value |-> out.value,
     store_reads |-> {out.queries[i] : i \in 1..Len(out.queries)},
     divisions |-> out.divisions]

\* the calls of analyze_submission that analyze_subreddit can make, with
\* their outcomes, over all that the store can reply
SubmissionCalls ==
    {[sorting_type |-> st, display_all_comment_results |-> d,
      max_number_of_comments_to_analyze |-> m,
      out |-> Outcome(analyze_submission(st, d, m, r))] :
        st \in SortingTypeInputs, d \in BOOLEAN, m \in MaxCommentsInputs,
        r \in Replies(SubredditStores, FindOneReplies)}

\* lines 264-280: one pass of the loop: analyze_submission on the next id,
\* its result added to the sums; an error it raises ends the call.  `calls`
\* holds the calls of analyze_submission the store allows, with their outcomes
SubredditStepWith(calls) ==
    /\ pc = "analyze_subreddit"
    /\ subreddit.position <= Len(subreddit.subreddit_submission_ids)
    /\ \E call \in calls :
         /\ call.sorting_type = args.sorting_type
         /\ call.display_all_comment_results = args.display_all_comment_results
         /\ call.max_number_of_comments_to_analyze =
                args.max_number_of_comments_to_analyze
         /\ LET submission_id ==
                    subreddit.subreddit_submission_ids[subreddit.position]
                analysis_results_of_submission == call.out.value
                called == [subreddit EXCEPT !.analysed = Append(@, submission_id)]
            IN  /\ store_reads' = store_reads \cup call.out.store_reads
                /\ divisions' = divisions + call.out.divisions
                /\ IF call.out.outcome = "raise"
                     THEN /\ subreddit' = called
                          /\ Ends("raise", call.out.error, NoValue)
                     ELSE /\ subreddit' =
                               [called EXCEPT
                                  !.results = Append(@, analysis_results_of_submission),
                                  !.analysis_results_of_submission =
                                      analysis_results_of_submission,
                                  !.average_results_for_subreddit =
                                      [positive |-> FracAdd(@.positive,
                                           analysis_results_of_submission.positive),
                                       negative |-> FracAdd(@.negative,
                                           analysis_results_of_submission.negative)],
                                  !.position = @ + 1]
                          /\ UNCHANGED <<pc, result>>
    /\ UNCHANGED <<method, args, reply, submission, ranking, store, earlier>>

\* the pass of the loop on a store whose replies are drawn at each read
SubredditStep == SubredditStepWith(SubmissionCalls)

\* lines 286-287
total_sum_of_all_submission_scores(average_results_for_subreddit) ==
    FracAdd(average_results_for_subreddit.positive,
            average_results_for_subreddit.negative)

\* Renormalized dividing by the number of submissions analysed (line 261:
\* "later we will divide it by the amount of submissions we have")
RenormalizedByCount(average_results_for_subreddit) ==
    LET count == [num |-> Len(subreddit.analysed), den |-> 1]
    IN  IF total_sum_of_all_submission_scores(average_results_for_subreddit) # Zero
          THEN [positive |-> FracDiv(average_results_for_subreddit.positive, count),
                negative |-> FracDiv(average_results_for_subreddit.negative, count)]
          ELSE average_results_for_subreddit

\* lines 291-293: the sums divided by their total, unless that is 0
Renormalized(average_results_for_subreddit) ==
    LET total == total_sum_of_all_submission_scores(average_results_for_subreddit)
    IN  IF total # Zero
          THEN [positive |-> FracDiv(average_results_for_subreddit.positive, total),
                negative |-> FracDiv(average_results_for_subreddit.negative, total)]
          ELSE average_results_for_subreddit

\* lines 282-302: after the loop
SubredditReturn ==
    /\ pc = "analyze_subreddit"
    /\ subreddit.position > Len(subreddit.subreddit_submission_ids)
    /\ LET value == Renormalized(subreddit.average_results_for_subreddit)
       IN  /\ divisions' =
                 IF total_sum_of_all_submission_scores(
                        subreddit.average_results_for_subreddit) # Zero
                   THEN divisions + 2 ELSE divisions
           /\ subreddit' = [subreddit EXCEPT !.average_results_for_subreddit = value]
           /\ IF method = "analyze_subreddit"
                THEN Ends("return", "", value)
                ELSE HandsBack(value)
    /\ UNCHANGED <<method, args, reply, submission, ranking, store_reads,
                   store, earlier>>

(***************************************************************************)
(* get_most_positive_subreddit_analysis_results (lines 305-341) and        *)
(* get_most_negative_subreddit_analysis_results (lines 344-380).           *)
(***************************************************************************)
RankingMethods == {"get_most_positive_subreddit_analysis_results",
                   "get_most_negative_subreddit_analysis_results"}

\* the key of the result the method compares
RankingKey(m) ==
    IF m = "get_most_positive_subreddit_analysis_results" THEN "positive"
                                                          ELSE "negative"

\* x > y on fractions
FracGreater(x, y) == x.num * y.den > y.num * x.den

\* lines 340 and 379 after the loop has run, most_positive_score['subreddit']
\* = subreddit.  In the first method most_positive_score is a local, unbound
\* unless line 338 ran and then a number; in the second it is a name never
\* bound.
AttachSubreddit(m, assigned) ==
    IF m = "get_most_positive_subreddit_analysis_results"
      THEN IF assigned THEN "TypeError" ELSE "UnboundLocalError"
      ELSE "NameError"

\* lines 340 and 379 when the loop has not run: the right-hand side is
\* evaluated first, and the loop variable subreddit is a local never bound
AttachUnboundSubreddit == "UnboundLocalError"

\* the loop of lines 329 and 368 going on after `position` subreddits even
\* when the list holds that many
has_next_subreddit_or_one_more(list_of_subreddits, position) ==
    position <= Len(list_of_subreddits)

\* lines 329 and 368, for subreddit in list_of_subreddits: whether the list
\* holds a subreddit after the first `position` ones
has_next_subreddit(list_of_subreddits, position) ==
    position < Len(list_of_subreddits)

\* lines 326-334 and 365-373: the call, up to the loop of the first
\* analyze_subreddit
Ranking ==
    /\ pc = "ready"
    /\ \E m \in RankingMethods, list_of_subreddits \in SubredditLists,
          sorting_type \in SortingTypeInputs,
          max_comments \in MaxCommentsInputs, max_submissions \in MaxSubmissionsInputs :
         /\ method' = m
         /\ args' = [NoArgs EXCEPT
                       !.list_of_subreddits = list_of_subreddits,
                       !.sorting_type = sorting_type,
                       !.max_number_of_comments_to_analyze = max_comments,
                       !.max_number_of_submissions_to_analyze = max_submissions]
         /\ IF has_next_subreddit(list_of_subreddits, 0)
              THEN /\ ranking' = [NoRanking EXCEPT !.position = 1]
                   /\ BeginSubreddit(args', TRUE, {}, 0, DistinctReplies)
              ELSE /\ ranking' = NoRanking
                   /\ subreddit' = NoSubreddit
                   /\ store_reads' = {}
                   /\ divisions' = 0
                   /\ Ends("raise", AttachUnboundSubreddit, NoValue)
    /\ reply' = NoReply
    /\ submission' = NoSubmission
    /\ UNCHANGED <<store, earlier>>

\* lines 336-341 and 375-380: analyze_subreddit has returned analysis_result
RankingCompare ==
    /\ pc = "ranking"
    /\ LET analysis_result == result.value
           key == RankingKey(method)
       IN  IF ranking.most_subreddit = <<>>
             \* {}['positive']
             THEN /\ Ends("raise", "KeyError", NoValue)
                  /\ UNCHANGED <<ranking, subreddit, store_reads, divisions>>
             ELSE LET greater == FracGreater(analysis_result[key],
                                             ranking.most_subreddit[1][key])
                      compared ==
                          [ranking EXCEPT
                             !.most_subreddit = IF greater THEN <<analysis_result>> ELSE @,
                             !.assigned = @ \/ greater]
                  IN  IF has_next_subreddit(args.list_of_subreddits, ranking.position)
                        THEN /\ ranking' = [compared EXCEPT !.position = @ + 1]
                             /\ BeginSubreddit(args, TRUE, store_reads, divisions,
                                               DistinctReplies)
                        ELSE /\ ranking' = compared
                             /\ Ends("raise", AttachSubreddit(method, compared.assigned),
                                     NoValue)
                             /\ UNCHANGED <<subreddit, store_reads, divisions>>
    /\ UNCHANGED <<method, args, reply, submission, store, earlier>>

(***************************************************************************)
(* sub_reddit_models.py: SubRedditAnalyzer.analyze_submission, the variant *)
(* with three fields (lines 95-161).                                       *)
(***************************************************************************)
\* what find() hands back: a pymongo Cursor, which yields each document once,
\* or a list, which every iteration walks from its start
FindKinds == {"Cursor", "list"}

\* what the store can reply to one call of the three-field analyze_submission:
\* the comments it holds for the query, as which kind of iterable, whether
\* the cursor is lost while it is read, and what find_one does when asked
SubRedditReplies(find_one_replies) ==
    {[stored |-> s, kind |-> "Cursor", cursor_lost |-> c, find_one |-> f] :
        s \in ListsUpTo(Comments, MaxComments), c \in BOOLEAN,
        f \in find_one_replies}
    \cup
    {[stored |-> s, kind |-> "list", cursor_lost |-> FALSE, find_one |-> f] :
        s \in ListsUpTo(Comments, MaxComments), f \in find_one_replies}

\* lines 80-93: the error of an invalid sorting type, or "" when find is asked
get_all_comment_objects_for_submission_and_sorting_type(sorting_type) ==
    IF sorting_type # None /\ sorting_type \notin {"hot", "new", "top"}
      THEN "ValueError"
      ELSE ""

\* lines 105-112: what the comprehension of line 112 reads after the loop
\* of lines 105-107 has walked the same iterable to its end
all_comments_on_submission_as_strings(all_submission_comment_objects) ==
    IF all_submission_comment_objects.kind = "Cursor"
      THEN <<>>
      ELSE all_submission_comment_objects.stored

\* the fields pos, neg or neu of the scores of the comments, in order
RECURSIVE FieldOfScores(_, _)
FieldOfScores(comments, field) ==
    IF comments = <<>> THEN <<>>
    ELSE <<polarity_scores(Head(comments))[field]>>
           \o FieldOfScores(Tail(comments), field)

\* the three-field result {'positive': 0, 'negative': 0, 'neutral': 0}
NoValue3 == [positive |-> Zero, negative |-> Zero, neutral |-> Zero]

\* how the three-field analyze_submission ends
Ended3(outcome, error, value, analysed, queries) ==
    [outcome |-> outcome, error |-> error, value |-> value,
     analysed |-> analysed, queries |-> queries]

\* lines 95-161: SubRedditAnalyzer.analyze_submission(submission_id,
\* sorting_type, display_all_comment_results) against a store that replies
\* `found`
SubRedditAnalyzer_analyze_submission(sorting_type, display_all_comment_results, found) ==
    LET invalid == get_all_comment_objects_for_submission_and_sorting_type(sorting_type)
        comments == all_comments_on_submission_as_strings(found)
        n == Len(comments)
        mean(field) == Frac(sum(FieldOfScores(comments, field)), 100 * n)
    IN  IF invalid # ""
          THEN Ended3("raise", invalid, NoValue3, <<>>, <<>>)
        ELSE IF found.cursor_lost
          \* nothing catches the CursorNotFound of the loop of line 105
          THEN Ended3("raise", "CursorNotFound", NoValue3, <<>>, <<"find">>)
        ELSE IF n > 0 /\ display_all_comment_results /\ found.find_one # "document"
          \* line 127: None['subreddit_name'], or the error of find_one
          THEN Ended3("raise",
                      IF found.find_one = "nothing" THEN "TypeError"
                                                    ELSE "CursorNotFound",
                      NoValue3, <<>>, <<"find", "find_one">>)
        ELSE IF n = 0
          \* lines 146-148: ZeroDivisionError
          THEN Ended3("return", "", NoValue3, comments, <<"find">>)
        ELSE Ended3("return", "",
                    [positive |-> mean("pos"), negative |-> mean("neg"),
                     neutral |-> mean("neu")],
                    comments,
                    IF display_all_comment_results
                      THEN <<"find", "find_one">> ELSE <<"find">>)

\* the three-field analyze_submission, called on its analyzer
SubRedditAnalyzeSubmission ==
    /\ pc = "ready"
    /\ \E sorting_type \in SortingTypeInputs, display \in BOOLEAN :
         \E found \in SubRedditReplies(IF display THEN FindOneReplies
                                                  ELSE {"document"}) :
           LET out == SubRedditAnalyzer_analyze_submission(sorting_type, display, found)
           IN  /\ method' = "SubRedditAnalyzer.analyze_submission"
               /\ args' = [NoArgs EXCEPT
                             !.sorting_type = sorting_type,
                             !.display_all_comment_results = display]
               /\ reply' = found
               /\ submission' = out
               /\ store_reads' = {out.queries[i] : i \in 1..Len(out.queries)}
               /\ divisions' = IF out.outcome = "return" /\ out.analysed # <<>>
                                 THEN 3 ELSE 0
               /\ Ends(out.outcome, out.error, out.value)
    /\ subreddit' = NoSubreddit
    /\ ranking' = NoRanking
    /\ UNCHANGED <<store, earlier>>

\* the caller has the outcome; the locals of the call are gone and the
\* analyzer, which no method writes to, is ready for the next call
NextCall ==
    /\ pc = "ended"
    /\ pc' = "ready"
    /\ method' = "none"
    /\ args' = NoArgs
    /\ reply' = NoReply
    /\ submission' = NoSubmission
    /\ subreddit' = NoSubreddit
    /\ ranking' = NoRanking
    /\ store_reads' = {}
    /\ divisions' = 0
    /\ result' = NoResult
    /\ UNCHANGED <<store, earlier>>

Next ==
    \/ AnalyzeSubmission
    \/ AnalyzeSubreddit
    \/ SubredditStep
    \/ SubredditReturn
    \/ Ranking
    \/ RankingCompare
    \/ SubRedditAnalyzeSubmission
    \/ NextCall

Spec == Init /\ [][Next]_vars

(***************************************************************************)
(* The same analyzer on a collection whose content is fixed: every read    *)
(* replies from `store`, and no cursor is lost.  What the last direct call *)
(* of analyze_submission left in `submission` stays there until the next   *)
(* direct call assigns it again.                                           *)
(***************************************************************************)
\* the submission ids and the subreddit names of the fixed collections
FixedSubmissionIds == {"s1", "s2"}

FixedSubreddits == {"a", "b"}

\* the comments a fixed collection holds for one submission
FixedComments == {<<"great", "sad">>, <<"odd", "sad">>}

\* the distinct submission ids a fixed collection holds for the subreddits
FixedSubmissions == {[a |-> <<"s1", "s2">>, b |-> <<"s2">>]}

FixedStores ==
    {[comments |-> c, submissions |-> i, find_one |-> f] :
        c \in [FixedSubmissionIds -> FixedComments], i \in FixedSubmissions,
        f \in {"document", "nothing"}}

\* what the fixed collection replies to analyze_submission(submission_id)
StoreReply(submission_id) ==
    [stored |-> store.comments[submission_id], cursor_lost |-> FALSE,
     yielded |-> Len(store.comments[submission_id]),
     find_one |-> store.find_one]

\* analyze_submission handing back what the last direct call returned, if
\* one returned, in place of analysing again
analyze_submission_from_the_last_call(submission_id, a) ==
    IF submission.outcome = "return"
      THEN submission
      ELSE analyze_submission(a.sorting_type, a.display_all_comment_results,
                              a.max_number_of_comments_to_analyze,
                              StoreReply(submission_id))

\* lines 98-193: analyze_submission(submission_id, ...) with the arguments
\* of `a`, on the fixed collection
analyze_submission_on_store(submission_id, a) ==
    analyze_submission(a.sorting_type, a.display_all_comment_results,
                       a.max_number_of_comments_to_analyze,
                       StoreReply(submission_id))

\* the sorting types and the caps passed to the analyzer of a fixed collection
FixedSortingTypeInputs == {None}

FixedMaxInputs == {0, 1}

FixedInit ==
    /\ pc = "ready"
    /\ method = "none"
    /\ args = NoArgs
    /\ reply = NoReply
    /\ submission = NoSubmission
    /\ subreddit = NoSubreddit
    /\ ranking = NoRanking
    /\ store_reads = {}
    /\ divisions = 0
    /\ result = NoResult
    /\ store \in FixedStores
    /\ earlier = <<>>

\* analyze_submission (lines 98-193) on the fixed collection
FixedAnalyzeSubmission ==
    /\ pc = "ready"
    /\ \E submission_id \in FixedSubmissionIds,
          sorting_type \in FixedSortingTypeInputs, display \in BOOLEAN,
          max_comments \in FixedMaxInputs :
         LET a == [NoArgs EXCEPT
                      !.submission_id = submission_id,
                      !.sorting_type = sorting_type,
                      !.display_all_comment_results = display,
                      !.max_number_of_comments_to_analyze = max_comments]
             out == analyze_submission_on_store(submission_id, a)
         IN  /\ method' = "analyze_submission"
             /\ args' = a
             /\ reply' = StoreReply(submission_id)
             /\ submission' = out
             /\ store_reads' = {out.queries[i] : i \in 1..Len(out.queries)}
             /\ divisions' = out.divisions
             /\ Ends(out.outcome, out.error, out.value)
    /\ subreddit' = NoSubreddit
    /\ UNCHANGED <<ranking, store, earlier>>

\* analyze_subreddit (lines 196-262) on the fixed collection, up to its loop
FixedAnalyzeSubreddit ==
    /\ pc = "ready"
    /\ \E subreddit_name \in FixedSubreddits,
          sorting_type \in FixedSortingTypeInputs, display_comments \in BOOLEAN,
          max_comments \in FixedMaxInputs, max_submissions \in FixedMaxInputs :
         /\ method' = "analyze_subreddit"
         /\ args' = [NoArgs EXCEPT
                       !.subreddit_name = subreddit_name,
                       !.sorting_type = sorting_type,
                       !.display_all_comment_results = display_comments,
                       !.max_number_of_comments_to_analyze = max_comments,
                       !.max_number_of_submissions_to_analyze = max_submissions]
         /\ BeginSubreddit(args', FALSE, {}, 0,
                           {[ids |-> store.submissions[subreddit_name],
                             cursor_lost |-> FALSE]})
    /\ UNCHANGED <<reply, submission, ranking, store, earlier>>

\* lines 264-280 on the fixed collection: the call of analyze_submission on
\* the next id replies from `store`
FixedSubredditStep ==
    /\ pc = "analyze_subreddit"
    /\ subreddit.position <= Len(subreddit.subreddit_submission_ids)
    /\ SubredditStepWith(
         {[sorting_type |-> args.sorting_type,
           display_all_comment_results |-> args.display_all_comment_results,
           max_number_of_comments_to_analyze |->
               args.max_number_of_comments_to_analyze,
           out |-> Outcome(analyze_submission_on_store(
                      subreddit.subreddit_submission_ids[subreddit.position],
                      args))]})

\* the call that has ended, as a later call is compared with it
ThisCall == [method |-> method, args |-> args, result |-> result,
             between |-> FALSE]

\* the running or ended call is the call `call` again
SameCall(call) == method = call.method /\ args = call.args

\* the caller has the outcome and the analyzer is ready for the next call.
\* The call may be kept as the earlier one; once one is kept, `between`
\* tells that another call has ended since.
FixedNextCall ==
    /\ pc = "ended"
    /\ pc' = "ready"
    /\ earlier' \in IF earlier = <<>>
                      THEN {<<>>, <<ThisCall>>}
                    ELSE IF SameCall(earlier[1])
                      THEN {earlier}
                    ELSE {<<[earlier[1] EXCEPT !.between = TRUE]>>}
    /\ method' = "none"
    /\ args' = NoArgs
    /\ reply' = NoReply
    /\ subreddit' = NoSubreddit
    /\ store_reads' = {}
    /\ divisions' = 0
    /\ result' = NoResult
    /\ UNCHANGED <<submission, ranking, store>>

FixedNext ==
    \/ FixedAnalyzeSubmission
    \/ FixedAnalyzeSubreddit
    \/ FixedSubredditStep
    \/ SubredditReturn
    \/ FixedNextCall

FixedSpec == FixedInit /\ [][FixedNext]_vars

(***************************************************************************)
(* Properties.                                                             *)
(***************************************************************************)
\* a direct call of analyze_submission has returned
SubmissionReturned ==
    pc = "ended" /\ method = "analyze_submission" /\ result.outcome = "return"

\* a direct call of analyze_subreddit has returned
SubredditReturned ==
    pc = "ended" /\ method = "analyze_subreddit" /\ result.outcome = "return"

One == [num |-> 1, den |-> 1]

\* the fraction x is the quotient n / d of two integers, d # 0
IsQuotient(x, n, d) == x.den # 0 /\ x.num * d = n * x.den

\* the indices of the retrieved comments the call labelled `label`
Labelled(label) ==
    {i \in 1..Len(submission.classifications) :
        submission.classifications[i] = label}

\* C1: analyze_submission returns exactly {positive: 0, negative: 0} whenever
\* no retrieved comment is classified Positive or Negative, be it that no
\* comment was retrieved or that every retrieved comment is Ignored.
C1_ZeroWhenNothingClassified ==
    (SubmissionReturned
     /\ Len(submission.classifications) = Len(submission.preprocessed)
     /\ Labelled("Positive") = {} /\ Labelled("Negative") = {})
    => result.value = [positive |-> [num |-> 0, den |-> 1],
                       negative |-> [num |-> 0, den |-> 1]]

\* C1, witness: two comments were retrieved, both were Ignored, and the call
\* returned the zero result
C1_Witness ==
    /\ SubmissionReturned
    /\ Len(submission.preprocessed) = 2
    /\ Labelled("Ignored") = {1, 2}
    /\ result.value = NoValue

\* some submission analysed by the running or ended analyze_subreddit
SubmissionResults ==
    {subreddit.results[i] : i \in 1..Len(subreddit.results)}

\* C2: whenever analyze_submission or analyze_subreddit returns a result
\* that is not {positive: 0, negative: 0}, its positive + negative is 1.
\* This holds of the direct calls and of the calls analyze_subreddit makes.
C2_SharesSumToOne ==
    /\ (SubmissionReturned \/ SubredditReturned) /\ result.value # NoValue
         => FracAdd(result.value.positive, result.value.negative) = One
    /\ \A r \in SubmissionResults :
         r # NoValue => FracAdd(r.positive, r.negative) = One

\* C2, witness: analyze_subreddit returned a non-zero result made of two
\* submissions, one of them with a non-zero result of two unequal shares
C2_Witness ==
    /\ SubredditReturned
    /\ result.value # NoValue
    /\ Len(subreddit.results) = 2
    /\ \E r \in SubmissionResults :
         r.positive \notin {Zero, One} /\ r.negative \notin {Zero, One}

\* the rule of classification as the specification words it
PositiveClause(score) ==
    score.compound >= 5 \/ (score.neg = 0 /\ score.pos > 0)

NegativeClause(score) ==
    score.compound <= -5 \/ (score.pos = 0 /\ score.neg > 0)

RuleLabel(score) ==
    IF PositiveClause(score) THEN "Positive"
    ELSE IF NegativeClause(score) THEN "Negative"
    ELSE "Ignored"

\* what the comments of label `label` contribute by the rule, in order:
\* compound as it is for Positive, its absolute value for Negative
RECURSIVE Magnitudes(_, _)
Magnitudes(comments, label) ==
    IF comments = <<>> THEN <<>>
    ELSE LET score == polarity_scores(Head(comments))
             rest == Magnitudes(Tail(comments), label)
         IN  IF RuleLabel(score) # label THEN rest
             ELSE IF label = "Positive" THEN <<score.compound>> \o rest
             ELSE <<IF score.compound < 0 THEN -score.compound
                                          ELSE score.compound>> \o rest

\* C3: the classification step labels each comment with exactly one of
\* Positive, Negative, Ignored by the rule evaluated in order (a score that
\* matches a Positive clause is Positive even if it matches a Negative
\* clause too); a Positive comment adds its compound, unclamped, to the
\* positive list, a Negative one the absolute value of its compound to the
\* negative list, an Ignored one nothing.
C3_ClassificationRule ==
    SubmissionReturned =>
      /\ Len(submission.classifications) = Len(submission.preprocessed)
      /\ \A i \in 1..Len(submission.preprocessed) :
           LET score == polarity_scores(submission.preprocessed[i])
               label == submission.classifications[i]
           IN  /\ label \in {"Positive", "Negative", "Ignored"}
               /\ label = "Positive" <=> PositiveClause(score)
               /\ label = "Negative" <=>
                      (~PositiveClause(score) /\ NegativeClause(score))
               /\ label = "Ignored" <=>
                      (~PositiveClause(score) /\ ~NegativeClause(score))
      /\ submission.positive_comment_results =
             Magnitudes(submission.preprocessed, "Positive")
      /\ submission.negative_comment_results =
             Magnitudes(submission.preprocessed, "Negative")

\* C3, witness: a comment that matches a Positive and a Negative clause
\* (neg = 0, pos > 0, compound = -0.70) was labelled Positive and added
\* -0.70 to the positive list, next to a Negative comment
C3_Witness ==
    /\ SubmissionReturned
    /\ submission.preprocessed = <<"odd", "sad">>
    /\ submission.classifications = <<"Positive", "Negative">>
    /\ submission.positive_comment_results = <<-70>>
    /\ submission.negative_comment_results = <<3>>

\* the comment is not Ignored by the rule
NotIgnored(comment) == RuleLabel(polarity_scores(comment)) # "Ignored"

\* C4: when the total of the positive and negative magnitudes is not 0,
\* analyze_submission returns the sum of each divided by that total; the
\* Ignored comments do not change the result (the call returns the same on
\* the comments without them), and one Positive comment among Ignored ones
\* gives positive = 1, negative = 0.
C4_NormalisedByPolarisedTotal ==
    SubmissionReturned =>
      LET positives == sum(Magnitudes(submission.preprocessed, "Positive"))
          negatives == sum(Magnitudes(submission.preprocessed, "Negative"))
          total == positives + negatives
          kept == SelectSeq(submission.preprocessed, NotIgnored)
          without_ignored ==
              analyze_submission(args.sorting_type, FALSE, 0,
                  [stored |-> kept, cursor_lost |-> FALSE,
                   yielded |-> Len(kept), find_one |-> "document"])
      IN  total # 0 =>
            /\ IsQuotient(result.value.positive, positives, total)
            /\ IsQuotient(result.value.negative, negatives, total)
            /\ without_ignored.value = result.value
            /\ (Cardinality(Labelled("Positive")) = 1 /\ Labelled("Negative") = {}
                  => result.value = [positive |-> One, negative |-> Zero])

\* C4, witness: one Positive comment and one Ignored comment were retrieved
\* and the call returned positive = 1, negative = 0
C4_Witness ==
    /\ SubmissionReturned
    /\ Len(submission.preprocessed) = 2
    /\ Cardinality(Labelled("Positive")) = 1
    /\ Cardinality(Labelled("Ignored")) = 1
    /\ result.value = [positive |-> One, negative |-> Zero]

\* the arguments of the direct call are ones the specification rejects
InvalidParameters ==
    \/ args.sorting_type \notin {"hot", "top", "new", "None"}
    \/ args.max_number_of_comments_to_analyze < 0
    \/ (method = "analyze_subreddit"
        /\ args.max_number_of_submissions_to_analyze < 0)

\* C5: analyze_submission and analyze_subreddit raise the invalid-parameter
\* error (ValueError) before any store read, normalisation or scoring when
\* sorting_type is not hot, top, new or None, or max_comments is negative,
\* or (analyze_subreddit) max_submissions is negative: such a call never
\* reaches the loop, reads nothing, scores nothing and divides nothing.
C5_InvalidParametersRaiseFirst ==
    (method \in {"analyze_submission", "analyze_subreddit"} /\ InvalidParameters)
    => /\ pc = "ended"
       /\ result.outcome = "raise" /\ result.error = "ValueError"
       /\ store_reads = {} /\ submission.queries = <<>>
       /\ subreddit.distinct_reply = "none" /\ subreddit.analysed = <<>>
       /\ submission.preprocessed = <<>> /\ submission.classifications = <<>>
       /\ divisions = 0

\* C5, witness: analyze_subreddit with a valid sorting type, a valid
\* max_comments and max_submissions = -1 raised ValueError, nothing read
C5_Witness ==
    /\ pc = "ended" /\ method = "analyze_subreddit"
    /\ args.sorting_type = "hot"
    /\ args.max_number_of_comments_to_analyze = 1
    /\ args.max_number_of_submissions_to_analyze = -1
    /\ result.outcome = "raise" /\ result.error = "ValueError"
    /\ store_reads = {}

\* the smaller of two integers
Min(a, b) == IF a < b THEN a ELSE b

\* C6: analyze_subreddit with max_submissions = k > 0 never calls
\* analyze_submission on more than k submissions; what it calls it on is
\* always a prefix of the n ids in the order the store returned them, and
\* when it returns that prefix is the first min(k, n) ids, all n when k = 0.
C6_SubmissionCap ==
    LET k == args.max_number_of_submissions_to_analyze
        ids == subreddit.retrieved_submission_ids
        n == Len(ids)
    IN  /\ k > 0 => Len(subreddit.analysed) <= k
        /\ Len(subreddit.analysed) <= n
        /\ subreddit.analysed = SubSeq(ids, 1, Len(subreddit.analysed))
        /\ SubredditReturned =>
             Len(subreddit.analysed) = IF k = 0 THEN n ELSE Min(k, n)

\* C6, witness: the store returned two ids, max_submissions was 1, and the
\* call returned having analysed the first id only
C6_Witness ==
    /\ SubredditReturned
    /\ args.max_number_of_submissions_to_analyze = 1
    /\ Len(subreddit.retrieved_submission_ids) = 2
    /\ subreddit.analysed = <<subreddit.retrieved_submission_ids[1]>>

\* the store returned the ids of the subreddit, and there are none
NoSubmissionIds ==
    /\ method = "analyze_subreddit"
    /\ subreddit.distinct_reply = "ids"
    /\ subreddit.retrieved_submission_ids = <<>>

\* C7: when the store returns no submission ids, analyze_subreddit returns
\* {positive: 0, negative: 0} at once: it never enters the loop, never calls
\* analyze_submission and evaluates no division.
C7_EmptySubreddit ==
    NoSubmissionIds =>
      /\ pc = "ended"
      /\ result.outcome = "return" /\ result.value = NoValue
      /\ subreddit.analysed = <<>> /\ subreddit.results = <<>>
      /\ "get_preprocessed_comments" \notin store_reads
      /\ divisions = 0

\* C7, witness: analyze_subreddit ended on a store that returned no ids
C7_Witness ==
    /\ NoSubmissionIds
    /\ pc = "ended"
    /\ store_reads = {"find.distinct"}
    /\ result.outcome = "return"

\* the plain sum of the field `key` of the results, each counted once
RECURSIVE SumOfField(_, _)
SumOfField(results, key) ==
    IF results = <<>> THEN [num |-> 0, den |-> 1]
    ELSE FracAdd(Head(results)[key], SumOfField(Tail(results), key))

RankingEnded ==
    /\ pc = "ended" /\ method \in RankingMethods
    /\ args.list_of_subreddits # <<>>
    /\ result.error \notin {"ValueError", "CursorNotFound"}

\* C9: on a non-empty list of subreddits the get_most_* methods run
\* analyze_subreddit on every name and return the result with the largest
\* positive (negative) field, the first seen on ties, with the name of the
\* winning subreddit attached.
C9_RankingReturnsMaximum ==
    RankingEnded =>
      /\ result.outcome = "return"
      /\ ranking.position = Len(args.list_of_subreddits)
      /\ ranking.most_subreddit = <<result.value>>

\* the call of analyze_submission lost its cursor during the retrieval and
\* its lookup for display did not fail
SubmissionCursorLost ==
    /\ pc = "ended" /\ method = "analyze_submission"
    /\ reply.cursor_lost
    /\ ~(args.display_all_comment_results /\ reply.find_one = "nothing")

\* what analyze_submission returns on a store that holds `comments` and
\* loses no cursor
OnStore(comments) ==
    analyze_submission(args.sorting_type, args.display_all_comment_results,
                       args.max_number_of_comments_to_analyze,
                       [stored |-> comments, cursor_lost |-> FALSE,
                        yielded |-> Len(comments), find_one |-> reply.find_one])

\* C10: a cursor lost during the retrieval of analyze_submission or of
\* analyze_subreddit does not fail the call: what was retrieved before is
\* taken for the whole result set and the result is computed from it.
C10_CursorLossAbsorbed ==
    /\ SubmissionCursorLost =>
         /\ result.outcome = "return"
         /\ result.value = OnStore(SubSeq(reply.stored, 1, reply.yielded)).value
    /\ (method = "analyze_subreddit" /\ subreddit.distinct_reply = "cursor_lost") =>
         ~(pc = "ended" /\ result.outcome = "raise")

\* a get_most_* method was called with an empty list of subreddits
RankingOnEmptyList ==
    method \in RankingMethods /\ args.list_of_subreddits = <<>>

\* C11: either get_most_* method called with an empty list of subreddits
\* ends in an error: it returns no ranking value, and it runs no
\* analyze_subreddit and reads nothing from the store.
C11_RankingOnEmptyListRaises ==
    RankingOnEmptyList =>
      /\ pc = "ended"
      /\ result.outcome = "raise"
      /\ result.error \in {"UnboundLocalError", "NameError"}
      /\ result.value = NoValue
      /\ store_reads = {}
      /\ subreddit.distinct_reply = "none" /\ subreddit.analysed = <<>>
      /\ ranking.position = 0
      /\ divisions = 0

\* C11, witness: get_most_negative_subreddit_analysis_results ended on the
\* empty list with an error, having read nothing
C11_Witness ==
    /\ pc = "ended"
    /\ method = "get_most_negative_subreddit_analysis_results"
    /\ args.list_of_subreddits = <<>>
    /\ result.outcome = "raise"
    /\ store_reads = {}

\* what the direct call of analyze_submission that has ended does on the
\* same store with display_all_comment_results off
WithDisplayOff ==
    analyze_submission(args.sorting_type, FALSE,
                       args.max_number_of_comments_to_analyze, reply)

\* C12: analyze_submission and analyze_subreddit end the same way, with the
\* same value returned or the same error raised, whether the display options
\* are on or off, also when the find_one done for display only finds nothing
\* or loses its cursor: a direct analyze_submission ends as it does with
\* display off, and analyze_subreddit raises no error but those it raises
\* with display off (ValueError, and CursorNotFound out of distinct).
C12_DisplayDoesNotChangeOutcome ==
    /\ (pc = "ended" /\ method = "analyze_submission") =>
         /\ result.outcome = WithDisplayOff.outcome
         /\ result.error = WithDisplayOff.error
         /\ result.value = WithDisplayOff.value
    /\ (pc = "ended" /\ method = "analyze_subreddit" /\ result.outcome = "raise") =>
         \/ result.error = "ValueError"
         \/ (result.error = "CursorNotFound"
             /\ subreddit.distinct_reply = "cursor_lost")

\* the three-field analyze_submission has returned
SubRedditSubmissionReturned ==
    /\ pc = "ended" /\ method = "SubRedditAnalyzer.analyze_submission"
    /\ result.outcome = "return"

\* the mean of the field of the scores of the comments, none of them left out
MeanOfField(comments, field) ==
    Frac(sum(FieldOfScores(comments, field)), 100 * Len(comments))

\* C13: SubRedditAnalyzer.analyze_submission of sub_reddit_models.py, on a
\* store that holds at least one comment for the submission (every score
\* having pos + neg + neu = 1), returns positive + negative + neutral = 1,
\* each field the mean of the per-comment value over all the comments of the
\* submission; all three fields are 0 only when the submission has no
\* comments.
C13_ThreeFieldsSumToOne ==
    SubRedditSubmissionReturned =>
      /\ reply.stored # <<>> =>
           /\ FracAdd(FracAdd(result.value.positive, result.value.negative),
                      result.value.neutral) = One
           /\ result.value.positive = MeanOfField(reply.stored, "pos")
           /\ result.value.negative = MeanOfField(reply.stored, "neg")
           /\ result.value.neutral = MeanOfField(reply.stored, "neu")
      /\ result.value = NoValue3 => reply.stored = <<>>

InUnitInterval(x) == x.den > 0 /\ 0 <= x.num /\ x.num <= x.den

\* C15: for all comment scores with pos, neg, neu in [0, 1] and compound in
\* [-1, 1], each field of what analyze_submission returns, and so each field
\* of what analyze_subreddit returns, lies in [0, 1].
C15_ResultsInUnitInterval ==
    /\ (SubmissionReturned \/ SubredditReturned) =>
         /\ InUnitInterval(result.value.positive)
         /\ InUnitInterval(result.value.negative)
    /\ \A r \in SubmissionResults :
         InUnitInterval(r.positive) /\ InUnitInterval(r.negative)

\* C16: whenever a retrieved comment is classified Positive or Negative,
\* analyze_submission returns a result that is not {positive: 0, negative:
\* 0}: the zero result means that no comment was classified.
C16_ZeroOnlyWhenNothingClassified ==
    (SubmissionReturned
     /\ (Labelled("Positive") # {} \/ Labelled("Negative") # {}))
    => result.value # [positive |-> [num |-> 0, den |-> 1],
                       negative |-> [num |-> 0, den |-> 1]]

\* the result is not {positive: 0, negative: 0}
NonZero(r) == r # NoValue

\* the results of the analysed submissions without the zero results
NonZeroResults == SelectSeq(subreddit.results, NonZero)

====
